---- MODULE Spec2Model ----
(***************************************************************************)
(* Model of the usePinList hook (src/src/usePinList.ts).                   *)
(*                                                                         *)
(* The hook keeps one piece of React state, pinnedIds, a JavaScript Set    *)
(* (iterated in insertion order, so it is modelled as a duplicate-free     *)
(* sequence).  Every action callback closes over the values of the render  *)
(* that created it: its guards read the rendered pinnedIds and the         *)
(* rendered lookup tables, while the updater function it hands to          *)
(* setPinnedIds is queued and applied by React, in call order, to the      *)
(* latest state when the component renders again.                          *)
(***************************************************************************)
EXTENDS Integers, Sequences, FiniteSets, TLC

\* ------------------------------------------------------------------ bounds
\* Largest number of setPinnedIds updaters queued within one render cycle.
MaxBatch == 2

\* ------------------------------------------------------------ JS values
\* The value `undefined`, as an element of the id domain (a Set can hold it).
UndefinedId == 0 - 1

\* An object item { id: i }; ref distinguishes object identities.
Obj(i, r) == [type |-> "object", id |-> i, ref |-> r]

\* A primitive number n: an id argument, or an item of a list of numbers.
Num(n) == [type |-> "number", id |-> n, ref |-> 0]

\* The value `undefined` where an item is expected (Map.get miss).
undefined == [type |-> "undefined", id |-> UndefinedId, ref |-> 0]

\* typeof v === 'string' || typeof v === 'number'
IsIdShaped(v) == v.type = "number"

\* !v for an item-or-undefined value: undefined and the number 0 are falsy.
Falsy(v) == v.type = "undefined" \/ (v.type = "number" /\ v.id = 0)

\* !id for an id-or-undefined value.
FalsyId(id) == id = UndefinedId \/ id = 0

\* The caller's identity function: item => item.id for objects, n => n for
\* a list of primitive numbers.
getItemId(item) == item.id

\* --------------------------------------------------------- input domains
Ids == {0, 1, 2}

O1 == Obj(1, 0)
O2 == Obj(2, 0)

\* The source arrays the caller passes over time: a list of objects, the
\* same list permuted, and a list of primitive numbers (identified by their
\* value).  Id 0 has no item in the object lists, id 2 none in the number
\* list, and there the objects are values from outside the source.
SourceChoices == { <<O1, O2>>, <<O2, O1>>, <<Num(0), Num(1)>> }

\* Arguments of the itemOrId parameter.
ArgChoices == {O1, O2, Num(0), Num(1), Num(2)}

\* options.initialPinnedIds
InitialChoices == { <<>>, <<2, 0, 2, 1>>, <<2, 2, 0, 1>> }

\* options.maxPinnedItems (0 stands for "not configured": both are falsy) and
\* whether options.onPinnedItemsChange is passed.
OptionChoices ==
  { [maxPinnedItems |-> 0, onPinnedItemsChange |-> TRUE],
    [maxPinnedItems |-> 2, onPinnedItemsChange |-> TRUE],
    [maxPinnedItems |-> 2, onPinnedItemsChange |-> FALSE] }

\* ------------------------------------------------------- Set / Array ops
Has(s, e) == \E i \in 1..Len(s) : s[i] = e

\* Variant of NewSet: an array copy, repeated values kept.
NewSetKeepsDuplicates(arr) == arr

\* new Set(array): first occurrence of every value, in array order.
NewSet(arr) ==
  LET F[i \in 0..Len(arr)] ==
        IF i = 0 THEN <<>>
        ELSE IF Has(F[i - 1], arr[i]) THEN F[i - 1] ELSE Append(F[i - 1], arr[i])
  IN F[Len(arr)]

\* set.add(e)
SetAdd(s, e) == IF Has(s, e) THEN s ELSE Append(s, e)

\* set.delete(e)
SetDelete(s, e) == SelectSeq(s, LAMBDA x : x # e)

\* array.slice(0, n)
Slice(arr, n) == SubSeq(arr, 1, IF n < Len(arr) THEN n ELSE Len(arr))

\* array.splice(k, 1) for k >= 0: the array left behind.
SpliceRemove(arr, k) ==
  IF k < Len(arr) THEN SubSeq(arr, 1, k) \o SubSeq(arr, k + 2, Len(arr)) ELSE arr

\* array.splice(k, 1)[0] for k >= 0: the removed element, undefined if none.
SpliceRemoved(arr, k) == IF k < Len(arr) THEN arr[k + 1] ELSE UndefinedId

\* array.splice(k, 0, e) for k >= 0: insertion, clamped to the end.
SpliceInsert(arr, k, e) ==
  LET p == IF k < Len(arr) THEN k ELSE Len(arr)
  IN SubSeq(arr, 1, p) \o <<e>> \o SubSeq(arr, p + 1, Len(arr))

\* (fromIndex, toIndex) arguments of the reorder action.
IndexChoices ==
  { <<0, 1>>, <<1, 0>>, <<0, 2>>, <<2, 0>>, <<0 - 1, 0>>, <<0, 0 - 1>> }

\* ------------------------------------------------------------------ state
VARIABLES
  items,      \* the items array of the current render
  options,    \* [maxPinnedItems, onPinnedItemsChange] as passed by the caller
  pinnedIds,  \* the pinnedIds state of the current render (a Set, in order)
  queue,      \* updaters handed to setPinnedIds since that render, in order
  views,      \* the memoized [pinnedItems, unpinnedItems, sortedItems]
  notified,   \* [fired, payload]: did the last commit invoke the change
              \* callback, and the argument of its most recent invocation
  last        \* the most recent step: for an action call, its arguments and
              \* the queue it was issued on; for a new items array, the
              \* array it replaced; for a commit, the Pin Set it met and
              \* the pinnedIds of the render it replaced; for the first
              \* render, the initialPinnedIds option

vars == <<items, options, pinnedIds, queue, views, notified, last>>

maxPinnedItems == options.maxPinnedItems

\* ---------------------------------------------------------- lookup tables
\* itemIdMap.get(item): the forward table is keyed by the item value itself.
itemIdMapGet(src, item) ==
  IF \E i \in 1..Len(src) : src[i] = item THEN getItemId(item) ELSE UndefinedId

\* idToItemMap.get(id): a later item with the same id overwrites an earlier.
idToItemMapGet(src, id) ==
  LET hits == {i \in 1..Len(src) : getItemId(src[i]) = id}
  IN IF hits = {} THEN undefined
     ELSE src[CHOOSE i \in hits : \A j \in hits : j <= i]

\* The callbacks of one render close over that render's source array src and
\* its pinnedIds value rendered; q is the queue of updaters so far.

\* getItem(itemOrId)
getItem(src, itemOrId) ==
  IF IsIdShaped(itemOrId) THEN idToItemMapGet(src, itemOrId.id) ELSE itemOrId

\* A variant of getId without the fallback: an item that is not in the
\* forward table has no id.
getIdTableOnly(src, itemOrId) ==
  IF IsIdShaped(itemOrId) THEN itemOrId.id ELSE itemIdMapGet(src, itemOrId)

\* getId(itemOrId)
getId(src, itemOrId) ==
  IF IsIdShaped(itemOrId) THEN itemOrId.id
  ELSE LET id == itemIdMapGet(src, itemOrId)
       IN IF id # UndefinedId THEN id ELSE getItemId(itemOrId)

\* hasPinnedId(id): membership in the pinnedIds of the render.
hasPinnedId(rendered, id) == Has(rendered, id)

\* A variant of isPinned that answers from the views: an argument that
\* resolves to no item of the source is not pinned.
isPinnedFromView(src, rendered, itemOrId) ==
  /\ getItem(src, itemOrId) # undefined
  /\ hasPinnedId(rendered, getId(src, itemOrId))

\* A variant of isPinned that tests the id for truthiness before the lookup.
isPinnedTruthyId(src, rendered, itemOrId) ==
  LET id == getId(src, itemOrId)
  IN ~FalsyId(id) /\ hasPinnedId(rendered, id)

\* isPinned(itemOrId)
isPinned(src, rendered, itemOrId) == hasPinnedId(rendered, getId(src, itemOrId))

\* ---------------------------------------------------------------- updaters
\* Variant of PinUpdater: the capacity test is left out.
PinUpdaterNoLimit(prev, id) == SetAdd(prev, id)

\* Variant of PinUpdater: at capacity the oldest pin makes room for the new.
PinUpdaterEvicts(prev, id) ==
  IF maxPinnedItems # 0 /\ Len(prev) >= maxPinnedItems
  THEN SetAdd(Tail(prev), id)
  ELSE SetAdd(prev, id)

\* Variant of PinUpdater: the size test reads the Set of the render.
PinUpdaterRenderedSize(prev, id) ==
  IF maxPinnedItems # 0 /\ Len(pinnedIds) >= maxPinnedItems THEN prev ELSE SetAdd(prev, id)

\* The function pinItem hands to setPinnedIds.
PinUpdater(prev, id) ==
  IF maxPinnedItems # 0 /\ Len(prev) >= maxPinnedItems THEN prev ELSE SetAdd(prev, id)

\* The function unpinItem hands to setPinnedIds.
UnpinUpdater(prev, id) == SetDelete(prev, id)

\* The function updatePinOrder hands to setPinnedIds.
ReorderUpdater(prev, fromIndex, toIndex) ==
  NewSet(SpliceInsert(SpliceRemove(prev, fromIndex), toIndex,
                      SpliceRemoved(prev, fromIndex)))

\* Variant of ClearedSet: only the pins that have an item are dropped.
ClearedSetKeepsStale ==
  SelectSeq(pinnedIds, LAMBDA id : idToItemMapGet(items, id) = undefined)

\* setPinnedIds(new Set()) of clearPinnedItems: the value that replaces the state.
ClearedSet == <<>>

\* One queued setPinnedIds call applied to the state before it.
ApplyUpdater(u, prev) ==
  CASE u.op = "pin"     -> PinUpdater(prev, u.id)
    [] u.op = "unpin"   -> UnpinUpdater(prev, u.id)
    [] u.op = "clear"   -> ClearedSet
    [] u.op = "reorder" -> ReorderUpdater(prev, u.from, u.to)

\* Does the call hand React a new Set object?  Only pinItem's updater can
\* return prevPinnedIds itself.
ReturnsNewSet(u, prev) ==
  ~(u.op = "pin" /\ maxPinnedItems # 0 /\ Len(prev) >= maxPinnedItems)

\* React applies the queued updaters in call order to the latest state.
ApplyQueue(q, base) ==
  LET F[i \in 0..Len(q)] == IF i = 0 THEN base ELSE ApplyUpdater(q[i], F[i - 1])
  IN F[Len(q)]

\* A variant that looks at the first queued call only.
QueueChangesStateFirstCall(q, base) ==
  q # <<>> /\ ReturnsNewSet(q[1], base)

\* Is the state after the queue a different object from the rendered one?
QueueChangesState(q, base) ==
  \E i \in 1..Len(q) : ReturnsNewSet(q[i], ApplyQueue(SubSeq(q, 1, i - 1), base))

\* The Pin Set: the hook's state once every call issued so far has been
\* applied.
PinSet == ApplyQueue(queue, pinnedIds)

Updater(op, id, fromIndex, toIndex) ==
  [op |-> op, id |-> id, from |-> fromIndex, to |-> toIndex]

\* ------------------------------------------------------------ derived views
\* itemIdMap.get(item) || getItemId(item)
ItemIdOrFallback(src, item) ==
  LET id == itemIdMapGet(src, item)
  IN IF FalsyId(id) THEN getItemId(item) ELSE id

\* pinnedMap.get(id): the pinned-candidate table filled while the source is
\* partitioned; a later item with the same id overwrites an earlier one.
PinnedMapGet(src, pinned, id) ==
  LET hits == {i \in 1..Len(src) :
                 /\ ItemIdOrFallback(src, src[i]) = id
                 /\ Has(pinned, id)}
  IN IF hits = {} THEN undefined
     ELSE src[CHOOSE i \in hits : \A j \in hits : j <= i]

\* A variant of the partition in which an item with a falsy id is never taken
\* as pinned.
ViewUnpinnedItemsFalsyId(src, pinned) ==
  SelectSeq(src, LAMBDA item : \/ FalsyId(ItemIdOrFallback(src, item))
                               \/ ~Has(pinned, ItemIdOrFallback(src, item)))

\* unpinnedItems: the source items whose id fails hasPinnedId, in source order.
ViewUnpinnedItems(src, pinned) ==
  SelectSeq(src, LAMBDA item : ~Has(pinned, ItemIdOrFallback(src, item)))

\* A variant that returns the pinned candidates as the partition collected
\* them, in source order.
ViewPinnedItemsSourceOrder(src, pinned) ==
  SelectSeq(src, LAMBDA item : Has(pinned, ItemIdOrFallback(src, item)))

\* A variant without the filter: a pinned id without an item yields undefined.
ViewPinnedItemsKeepsMisses(src, pinned) ==
  [i \in 1..Len(pinned) |-> PinnedMapGet(src, pinned, pinned[i])]

\* orderedPinnedItems: pinnedIdsArray mapped through pinnedMap, misses dropped.
ViewPinnedItems(src, pinned) ==
  LET F[i \in 0..Len(pinned)] ==
        IF i = 0 THEN <<>>
        ELSE LET item == PinnedMapGet(src, pinned, pinned[i])
             IN IF item # undefined THEN Append(F[i - 1], item) ELSE F[i - 1]
  IN F[Len(pinned)]

\* A variant that concatenates the two parts the other way round.
SpreadUnpinnedFirst(orderedPinnedItems, unpinned) ==
  unpinned \o orderedPinnedItems

\* [...orderedPinnedItems, ...unpinnedItems]
Spread(orderedPinnedItems, unpinned) ==
  orderedPinnedItems \o unpinned

\* sortedItems: the ordered pinned items followed by the unpinned items.
ViewSortedItems(src, pinned) ==
  Spread(ViewPinnedItems(src, pinned), ViewUnpinnedItems(src, pinned))

\* The value the useMemo callback computes.
ComputeViews(src, pinned) ==
  LET orderedPinnedItems == ViewPinnedItems(src, pinned)
      unpinned           == ViewUnpinnedItems(src, pinned)
  IN [pinnedItems   |-> orderedPinnedItems,
      unpinnedItems |-> unpinned,
      sortedItems   |-> Spread(orderedPinnedItems, unpinned)]

\* A variant of the memo that is keyed on pinnedIds alone: a new items array
\* does not recompute the views.
MemoizedViewsIgnoresSource(src, next, sourceChanged, stateChanged) ==
  IF stateChanged THEN ComputeViews(src, next) ELSE views

\* The useMemo of the views at a render with the source src and the state
\* next: recomputed when a dependency (the items array, the pinnedIds
\* object) changed, the memoized value otherwise.
MemoizedViews(src, next, sourceChanged, stateChanged) ==
  IF sourceChanged \/ stateChanged THEN ComputeViews(src, next) ELSE views

\* The views the consumer holds: those the hook returned at the current
\* render.
pinnedItems == views.pinnedItems
unpinnedItems == views.unpinnedItems
sortedItems == views.sortedItems

\* A variant of the effect that maps the pinnedIds of the render before the
\* commit.
EffectPayloadEarlier(src, pinned) ==
  LET F[i \in 0..Len(pinnedIds)] ==
        IF i = 0 THEN <<>>
        ELSE LET item == idToItemMapGet(src, pinnedIds[i])
             IN IF item # undefined THEN Append(F[i - 1], item) ELSE F[i - 1]
  IN F[Len(pinnedIds)]

\* The argument the useEffect passes to onPinnedItemsChange.
EffectPayload(src, pinned) ==
  LET F[i \in 0..Len(pinned)] ==
        IF i = 0 THEN <<>>
        ELSE LET item == idToItemMapGet(src, pinned[i])
             IN IF item # undefined THEN Append(F[i - 1], item) ELSE F[i - 1]
  IN F[Len(pinned)]

\* ------------------------------------------------------------ action calls
\* Each callback either returns early or hands one updater to setPinnedIds.
\* The operators below give the queue after the call.  Guards read the
\* render (src, rendered), never the queue.

\* Variant of pinItemCall: the `if (!item) return` test is left out.
pinItemCallNoItemTest(src, rendered, q, itemOrId) ==
  LET id == IF IsIdShaped(itemOrId) THEN itemOrId.id ELSE getItemId(itemOrId)
  IN IF hasPinnedId(rendered, id) THEN q
     ELSE Append(q, Updater("pin", id, 0, 0))

\* pinItem(itemOrId)
pinItemCall(src, rendered, q, itemOrId) ==
  LET item == getItem(src, itemOrId)
      id   == IF IsIdShaped(itemOrId) THEN itemOrId.id
              ELSE ItemIdOrFallback(src, item)
  IN IF Falsy(item) THEN q
     ELSE IF hasPinnedId(rendered, id) THEN q
     ELSE Append(q, Updater("pin", id, 0, 0))

\* A variant of unpinItem with the item test of pinItem: an argument that
\* resolves to no item is skipped.
unpinItemCallItemTest(src, rendered, q, itemOrId) ==
  LET id == getId(src, itemOrId)
  IN IF Falsy(getItem(src, itemOrId)) THEN q
     ELSE IF ~hasPinnedId(rendered, id) THEN q
     ELSE Append(q, Updater("unpin", id, 0, 0))

\* unpinItem(itemOrId)
unpinItemCall(src, rendered, q, itemOrId) ==
  LET id == getId(src, itemOrId)
  IN IF ~hasPinnedId(rendered, id) THEN q
     ELSE Append(q, Updater("unpin", id, 0, 0))

\* Variant of togglePinCall: the pinned branch is missing.
togglePinCallAlwaysPins(src, rendered, q, itemOrId) ==
  pinItemCall(src, rendered, q, itemOrId)

\* togglePin(itemOrId)
togglePinCall(src, rendered, q, itemOrId) ==
  LET id == getId(src, itemOrId)
  IN IF hasPinnedId(rendered, id)
     THEN unpinItemCall(src, rendered, q, Num(id))
     ELSE pinItemCall(src, rendered, q, itemOrId)

\* clearPinnedItems()
clearPinnedItemsCall(q) == Append(q, Updater("clear", UndefinedId, 0, 0))

\* updatePinOrder(fromIndex, toIndex)
updatePinOrderCall(rendered, q, fromIndex, toIndex) ==
  IF \/ fromIndex < 0
     \/ toIndex < 0
     \/ fromIndex >= Len(rendered)
     \/ toIndex >= Len(rendered)
  THEN q
  ELSE Append(q, Updater("reorder", UndefinedId, fromIndex, toIndex))

\* The record kept of a call: its arguments and the queue it was issued on.
Call(op, arg, fromIndex, toIndex) ==
  [op |-> op, arg |-> arg, from |-> fromIndex, to |-> toIndex, queue |-> queue,
   prev |-> <<>>, pins |-> <<>>, rendered |-> <<>>]

\* ------------------------------------------------------------------- Init
\* useState initializer, first render and the mount effect.
\* A variant of the initializer that builds the Set first and cuts it to
\* the bound afterwards.
InitialPinnedIdsSetFirst(initialPinnedIds, max) ==
  IF max # 0 THEN Slice(NewSet(initialPinnedIds), max) ELSE NewSet(initialPinnedIds)

\* The useState initializer: initialPinnedIds cut to maxPinnedItems entries
\* when that option is truthy, then made a Set.
InitialPinnedIds(initialPinnedIds, max) ==
  NewSet(IF max # 0 THEN Slice(initialPinnedIds, max) ELSE initialPinnedIds)

\* Variant of MountEffect: the effect waits for the first change.
MountEffectSkipped(src, pinned) == [fired |-> FALSE, payload |-> <<>>]

\* The run of the useEffect after the first render.
MountEffect(src, pinned) ==
  [fired |-> options.onPinnedItemsChange,
   payload |-> IF options.onPinnedItemsChange
               THEN EffectPayload(src, pinned) ELSE <<>>]

Init ==
  /\ items \in SourceChoices
  /\ options \in OptionChoices
  /\ \E initialPinnedIds \in InitialChoices :
       /\ pinnedIds = InitialPinnedIds(initialPinnedIds, options.maxPinnedItems)
       /\ last = [op |-> "init", arg |-> undefined, from |-> 0, to |-> 0,
                  queue |-> <<>>, prev |-> <<>>, pins |-> initialPinnedIds,
                  rendered |-> <<>>]
  /\ queue = <<>>
  /\ views = ComputeViews(items, pinnedIds)
  /\ notified = MountEffect(items, pinnedIds)

\* ---------------------------------------------------------------- actions
pinItem(itemOrId) ==
  /\ Len(queue) < MaxBatch
  /\ queue' = pinItemCall(items, pinnedIds, queue, itemOrId)
  /\ last' = Call("pin", itemOrId, 0, 0)
  /\ UNCHANGED <<items, options, pinnedIds, views, notified>>

unpinItem(itemOrId) ==
  /\ Len(queue) < MaxBatch
  /\ queue' = unpinItemCall(items, pinnedIds, queue, itemOrId)
  /\ last' = Call("unpin", itemOrId, 0, 0)
  /\ UNCHANGED <<items, options, pinnedIds, views, notified>>

togglePin(itemOrId) ==
  /\ Len(queue) < MaxBatch
  /\ queue' = togglePinCall(items, pinnedIds, queue, itemOrId)
  /\ last' = Call("toggle", itemOrId, 0, 0)
  /\ UNCHANGED <<items, options, pinnedIds, views, notified>>

clearPinnedItems ==
  /\ Len(queue) < MaxBatch
  /\ queue' = clearPinnedItemsCall(queue)
  /\ last' = Call("clear", undefined, 0, 0)
  /\ UNCHANGED <<items, options, pinnedIds, views, notified>>

updatePinOrder(fromIndex, toIndex) ==
  /\ Len(queue) < MaxBatch
  /\ queue' = updatePinOrderCall(pinnedIds, queue, fromIndex, toIndex)
  /\ last' = Call("reorder", undefined, fromIndex, toIndex)
  /\ UNCHANGED <<items, options, pinnedIds, views, notified>>

\* Variant of NextPinnedIds: the ids that have an item are put in the order
\* of the items array, ahead of the ids without one.
NextPinnedIdsSourceOrder(src) ==
  LET next == ApplyQueue(queue, pinnedIds)
      F[i \in 0..Len(src)] ==
        IF i = 0 THEN <<>>
        ELSE IF Has(next, getItemId(src[i])) /\ ~Has(F[i - 1], getItemId(src[i]))
             THEN Append(F[i - 1], getItemId(src[i]))
             ELSE F[i - 1]
  IN F[Len(src)] \o SelectSeq(next, LAMBDA id : ~Has(F[Len(src)], id))

\* A variant of the state of the next render that drops the ids without an
\* item in the source it renders.
NextPinnedIdsPrunesStale(src) ==
  SelectSeq(ApplyQueue(queue, pinnedIds),
            LAMBDA id : \E i \in 1..Len(src) : getItemId(src[i]) = id)

\* The pinnedIds the next render reads from useState: the queued updaters
\* applied in call order, whatever the items array of that render.
NextPinnedIds(src) == ApplyQueue(queue, pinnedIds)

\* A variant of the effect's dependencies without the lookup table built
\* from the items.
EffectRunsIgnoresSource(sourceChanged, stateChanged) == stateChanged

\* Does the useEffect run after the commit?  Its dependencies are pinnedIds
\* and idToItemMap (onPinnedItemsChange is taken as a stable reference).
EffectRuns(sourceChanged, stateChanged) == sourceChanged \/ stateChanged

\* The commit of a render: the queued updaters are applied in call order, the
\* views are memoized and the useEffect runs when a dependency changed.
Commit(src, sourceChanged) ==
  LET next         == NextPinnedIds(src)
      stateChanged == QueueChangesState(queue, pinnedIds)
  IN /\ items' = src
     /\ pinnedIds' = next
     /\ queue' = <<>>
     /\ views' = MemoizedViews(src, next, sourceChanged, stateChanged)
     /\ notified' =
          IF options.onPinnedItemsChange /\ EffectRuns(sourceChanged, stateChanged)
          THEN [fired |-> TRUE, payload |-> EffectPayload(src, next)]
          ELSE [fired |-> FALSE, payload |-> notified.payload]
     /\ UNCHANGED options

\* React re-renders the component after the calls of an event handler.
Render ==
  /\ queue # <<>>
  /\ Commit(items, FALSE)
  /\ last' = [op |-> "render", arg |-> undefined, from |-> 0, to |-> 0,
              queue |-> <<>>, prev |-> <<>>, pins |-> PinSet,
              rendered |-> pinnedIds]

\* The parent re-renders the component with a new items array.
SetItems(src) ==
  /\ Commit(src, TRUE)
  /\ last' = [op |-> "setItems", arg |-> undefined, from |-> 0, to |-> 0,
              queue |-> <<>>, prev |-> items, pins |-> PinSet,
              rendered |-> pinnedIds]

Next ==
  \/ \E itemOrId \in ArgChoices : pinItem(itemOrId)
  \/ \E itemOrId \in ArgChoices : unpinItem(itemOrId)
  \/ \E itemOrId \in ArgChoices : togglePin(itemOrId)
  \/ clearPinnedItems
  \/ \E index \in IndexChoices : updatePinOrder(index[1], index[2])
  \/ Render
  \/ \E src \in SourceChoices : SetItems(src)

Spec == Init /\ [][Next]_vars

TypeOK ==
  /\ items \in SourceChoices
  /\ Len(queue) <= MaxBatch

\* ----------------------------------------------------------- properties
\* The Pin Set the most recent call was issued on.
Before == ApplyQueue(last.queue, pinnedIds)

\* The id the argument of the most recent call resolves to.
LastId == getId(items, last.arg)

\* Is the value an element of the source array?
InSource(src, v) == \E i \in 1..Len(src) : src[i] = v

\* Is there an item of the source with this id?
HasItem(src, id) == \E i \in 1..Len(src) : getItemId(src[i]) = id

\* Is there room for one more pin?
BelowCapacity(pinned) == maxPinnedItems = 0 \/ Len(pinned) < maxPinnedItems

\* The sequence s with the element at 0-based position f moved to 0-based
\* position t of the sequence that remains.
Moved(s, f, t) ==
  LET rest == [i \in 1..(Len(s) - 1) |-> IF i <= f THEN s[i] ELSE s[i + 1]]
  IN [i \in 1..Len(s) |->
        IF i <= t THEN rest[i] ELSE IF i = t + 1 THEN s[f + 1] ELSE rest[i - 1]]

\* C1. Capacity invariant: with a positive maxPinnedItems configured, the
\* Pin Set never holds more than maxPinnedItems ids: not the rendered state,
\* not the state after any prefix of the calls batched in a render cycle.
CapacityInvariant ==
  maxPinnedItems # 0 =>
    \A k \in 0..Len(queue) :
      Len(ApplyQueue(SubSeq(queue, 1, k), pinnedIds)) <= maxPinnedItems

\* A pin handed to React as the second call of a batch, on a full Pin Set.
CapacityWitness ==
  /\ maxPinnedItems # 0
  /\ last.op = "pin"
  /\ Len(queue) = 2
  /\ last.queue # queue
  /\ Len(Before) = maxPinnedItems
  /\ Len(PinSet) = maxPinnedItems

\* C2. pin at capacity is rejected without eviction: when a bound is set and
\* the Pin Set holds maxPinnedItems ids, pin(x) of an unpinned x leaves the
\* Pin Set as it was, same ids in the same order.
PinAtCapacityRejected ==
  ( /\ last.op = "pin"
    /\ maxPinnedItems # 0
    /\ Len(Before) >= maxPinnedItems
    /\ ~Has(Before, LastId) )
  => PinSet = Before

\* A resolvable, unpinned x whose updater reached a full Pin Set.
PinAtCapacityWitness ==
  /\ last.op = "pin"
  /\ maxPinnedItems # 0
  /\ Len(Before) >= maxPinnedItems
  /\ ~Has(Before, LastId)
  /\ HasItem(items, LastId)
  /\ queue = Append(last.queue, Updater("pin", LastId, 0, 0))

\* C3. pin appends at the tail: when x resolves to an item of the current
\* source, x is not pinned and the Pin Set has room, pin(x) yields the
\* previous Pin Set with the id of x appended, and the item is the last
\* element of pinnedItems.
PinAppendsAtTail ==
  ( /\ last.op = "pin"
    /\ InSource(items, getItem(items, last.arg))
    /\ ~Has(Before, LastId)
    /\ BelowCapacity(Before) )
  => /\ PinSet = Append(Before, LastId)
     /\ ViewPinnedItems(items, PinSet) # <<>>
     /\ ViewPinnedItems(items, PinSet)[Len(ViewPinnedItems(items, PinSet))]
          = getItem(items, last.arg)

\* C4 as stated. pin with an unresolvable reference is skipped: when the
\* argument, an id or an item object, corresponds to no item of the current
\* source, the Pin Set is unchanged; pin never adds an id without an item.
PinUnresolvableSkipped ==
  last.op = "pin" =>
    /\ ( /\ ~InSource(items, last.arg)
         /\ ~HasItem(items, LastId) ) => PinSet = Before
    /\ \A id \in Ids : (Has(PinSet, id) /\ ~Has(Before, id)) => HasItem(items, id)

\* C4 as amended. pin with an unresolvable id is skipped: when the argument
\* is an id (a number or a string) that no item of the current source has,
\* no updater is handed to React and the Pin Set is unchanged; a pin called
\* with an id never adds an id without an item.
PinUnresolvableIdSkipped ==
  (last.op = "pin" /\ IsIdShaped(last.arg)) =>
    /\ ~HasItem(items, LastId) => (queue = last.queue /\ PinSet = Before)
    /\ \A id \in Ids : (Has(PinSet, id) /\ ~Has(Before, id)) => HasItem(items, id)

\* An id without an item, not pinned, with room in the Pin Set: nothing but
\* the failed resolution stops the pin.
PinUnresolvableIdWitness ==
  /\ last.op = "pin"
  /\ IsIdShaped(last.arg)
  /\ ~HasItem(items, LastId)
  /\ ~Has(Before, LastId)
  /\ ~Has(pinnedIds, LastId)
  /\ BelowCapacity(Before)
  /\ Before # <<>>

\* C5. pin is idempotent: after pin(x), a second pin(x) leaves the Pin Set as
\* the first one left it, whether it is issued in the same batch or after
\* the render that follows.
PinIdempotent ==
  last.op = "pin" =>
    /\ ApplyQueue(pinItemCall(items, pinnedIds, queue, last.arg), pinnedIds) = PinSet
    /\ ApplyQueue(pinItemCall(items, PinSet, <<>>, last.arg), PinSet) = PinSet

\* C6. Inverse law: for x not pinned, pin(x) followed by unpin(x) restores
\* the Pin Set pin(x) was issued on, whether unpin(x) is issued in the same
\* batch or after the render that follows.
PinThenUnpinRestores ==
  (last.op = "pin" /\ ~Has(Before, LastId)) =>
    /\ ApplyQueue(unpinItemCall(items, pinnedIds, queue, last.arg), pinnedIds) = Before
    /\ ApplyQueue(unpinItemCall(items, PinSet, <<>>, last.arg), PinSet) = Before

\* C7. unpin removes exactly one id and keeps order: when the resolved id is
\* in the Pin Set, unpin(x) yields the previous sequence without that id;
\* otherwise the Pin Set is unchanged.
UnpinRemovesOne ==
  last.op = "unpin" =>
    PinSet = IF Has(Before, LastId)
             THEN SelectSeq(Before, LAMBDA id : id # LastId)
             ELSE Before

\* C8. toggle dispatches on pinned status at call time: toggle(x) leaves the
\* Pin Set unpin(x) would leave when the resolved id is in the Pin Set, and
\* the Pin Set pin(x) would leave otherwise.
ToggleDispatches ==
  last.op = "toggle" =>
    PinSet = ApplyQueue(IF Has(Before, LastId)
                        THEN unpinItemCall(items, pinnedIds, last.queue, last.arg)
                        ELSE pinItemCall(items, pinnedIds, last.queue, last.arg),
                        pinnedIds)

\* A toggle that removed a pin from a Pin Set of several ids.
ToggleWitness ==
  /\ last.op = "toggle"
  /\ Has(Before, LastId)
  /\ ~Has(PinSet, LastId)
  /\ PinSet # <<>>

\* C9. clear empties unconditionally: once clear() is applied the Pin Set is
\* empty, stale ids included, and the views computed from it are: pinnedItems
\* empty, unpinnedItems and sortedItems equal to the source.
ClearEmpties ==
  last.op = "clear" =>
    /\ PinSet = <<>>
    /\ ViewPinnedItems(items, PinSet) = <<>>
    /\ ViewUnpinnedItems(items, PinSet) = items
    /\ ViewSortedItems(items, PinSet) = items

\* A clear of a Pin Set that held a visible pin and a stale one.
ClearWitness ==
  /\ last.op = "clear"
  /\ ViewPinnedItems(items, Before) # <<>>
  /\ \E i \in 1..Len(Before) : ~HasItem(items, Before[i])

\* C10. reorder is a single-element move: for indices within the Pin Set,
\* reorder(fromIndex, toIndex) removes the id at fromIndex and inserts it at
\* toIndex of the shortened sequence; the moved id ends at toIndex.
ReorderMoves ==
  ( /\ last.op = "reorder"
    /\ 0 <= last.from /\ last.from < Len(Before)
    /\ 0 <= last.to /\ last.to < Len(Before) )
  => /\ PinSet = Moved(Before, last.from, last.to)
     /\ PinSet[last.to + 1] = Before[last.from + 1]

\* Is the 0-based index outside a sequence of this length?
OutOfRange(index, length) == index < 0 \/ index >= length

\* C11. reorder with an out-of-range index is a no-op: when fromIndex or
\* toIndex is negative or not below the size of the Pin Set the call meets
\* (an empty Pin Set included), the Pin Set after the call is the one before.
ReorderOutOfRangeNoOp ==
  ( /\ last.op = "reorder"
    /\ \/ OutOfRange(last.from, Len(Before))
       \/ OutOfRange(last.to, Len(Before)) )
  => PinSet = Before

\* C12. reorder addresses the displayed pinned order: for indices that are
\* positions of the pinnedItems view, reorder(fromIndex, toIndex) moves the
\* item shown at pinnedItems[fromIndex] to position toIndex of pinnedItems
\* and keeps the other pinned items in their relative order.
ReorderMovesDisplayed ==
  ( /\ last.op = "reorder"
    /\ ~OutOfRange(last.from, Len(ViewPinnedItems(items, Before)))
    /\ ~OutOfRange(last.to, Len(ViewPinnedItems(items, Before))) )
  => ViewPinnedItems(items, PinSet)
       = Moved(ViewPinnedItems(items, Before), last.from, last.to)

\* Do the items of the source have pairwise distinct ids?
DistinctIds(src) ==
  \A i, j \in 1..Len(src) : getItemId(src[i]) = getItemId(src[j]) => i = j

\* The number of positions of the sequence that hold the value.
Count(s, v) == Cardinality({i \in 1..Len(s) : s[i] = v})

\* Is some id of the sequence without an item in the source?
HasStalePin(src, pinned) ==
  \E i \in 1..Len(pinned) : ~HasItem(src, pinned[i])

\* The walk of a sequence of ids in its own order that takes, for each id,
\* the item of the source with that id and skips an id without one.
VisiblePins(src, pinned) ==
  LET Walk[i \in 0..Len(pinned)] ==
        IF i = 0 THEN <<>>
        ELSE IF HasItem(src, pinned[i])
             THEN Append(Walk[i - 1],
                         CHOOSE item \in {src[k] : k \in 1..Len(src)} :
                           getItemId(item) = pinned[i])
             ELSE Walk[i - 1]
  IN Walk[Len(pinned)]

\* C13. Partition completeness: for a source with pairwise distinct ids,
\* sortedItems is a permutation of the source that holds every source item
\* exactly once, and pinnedItems and unpinnedItems are disjoint and together
\* hold every source item.
PartitionComplete ==
  LET sorted == sortedItems
      pinned == pinnedItems
      unpinned == unpinnedItems
  IN DistinctIds(items) =>
       /\ Len(sorted) = Len(items)
       /\ \A i \in 1..Len(items) :
            /\ Count(sorted, items[i]) = 1
            /\ Count(pinned, items[i]) + Count(unpinned, items[i]) = 1
       /\ \A i \in 1..Len(pinned) : InSource(items, pinned[i])
       /\ \A i \in 1..Len(unpinned) : InSource(items, unpinned[i])

\* A render after a batch that shows a pinned and an unpinned item while the
\* Pin Set also holds an id without an item.
PartitionWitness ==
  /\ last.op = "render"
  /\ DistinctIds(items)
  /\ pinnedItems # <<>>
  /\ unpinnedItems # <<>>
  /\ HasStalePin(items, pinnedIds)

\* C14. unpinnedItems is the subsequence of the source made of the items
\* whose id is not in the Pin Set, in source order.
UnpinnedIsSourceSubsequence ==
  unpinnedItems = SelectSeq(items, LAMBDA item : ~Has(pinnedIds, getItemId(item)))

\* A render that shows a source whose item with the id 0 is pinned and whose
\* other item is not.
UnpinnedWitness ==
  /\ last.op = "render"
  /\ Has(pinnedIds, 0)
  /\ HasItem(items, 0)
  /\ Len(unpinnedItems) = 1
  /\ getItemId(unpinnedItems[1]) # 0

\* C15. pinnedItems is the walk of the Pin Set in its own order that takes,
\* for each id, the source item with that id and skips an id without one;
\* the order does not depend on the positions of the items in the source.
PinnedFollowsPinSet ==
  LET pinned == pinnedItems
  IN /\ pinned = VisiblePins(items, pinnedIds)
     /\ \A src \in SourceChoices :
          (\A v \in ArgChoices : InSource(src, v) <=> InSource(items, v))
          => ViewPinnedItems(src, pinnedIds) = pinned

\* A render that shows two pinned items in the reverse of their source order,
\* with a stale id between them in the Pin Set.
PinnedOrderWitness ==
  /\ last.op = "render"
  /\ Len(pinnedItems) = 2
  /\ pinnedItems[1] = items[2]
  /\ pinnedItems[2] = items[1]
  /\ Len(pinnedIds) = 3
  /\ ~HasItem(items, pinnedIds[2])

\* C16. sortedItems is pinnedItems followed by unpinnedItems: every item
\* whose id is in the Pin Set comes before every item whose id is not.
SortedIsPinnedThenUnpinned ==
  LET sorted == sortedItems
  IN /\ sorted = pinnedItems \o unpinnedItems
     /\ \A i, j \in 1..Len(sorted) :
          ( /\ i < j
            /\ Has(pinnedIds, getItemId(sorted[j])) )
          => Has(pinnedIds, getItemId(sorted[i]))

\* A render in which the second item of the source is the only pinned one,
\* so that sortedItems is not in source order.
SortedWitness ==
  /\ last.op = "render"
  /\ Len(pinnedItems) = 1
  /\ Len(unpinnedItems) = 1
  /\ sortedItems = <<items[2], items[1]>>

\* C17. status is pure membership: status(x) is true exactly when the id x
\* resolves to is in the Pin Set (the query itself sets no state, so it
\* changes neither the Pin Set nor a view and notifies nobody).
StatusIsMembership ==
  \A x \in ArgChoices :
    isPinned(items, pinnedIds, x) <=> Has(PinSet, getId(items, x))

\* Is the value an id that no item of the source has?
UnresolvableId(src, x) == IsIdShaped(x) /\ ~HasItem(src, x.id)

\* C18 as stated. status of an unresolvable reference is "not pinned": for
\* an id without an item in the current source, status(id) is false, also
\* while the id is kept in the Pin Set as a stale pin.
StatusUnresolvableFalse ==
  \A x \in ArgChoices :
    UnresolvableId(items, x) => ~isPinned(items, pinnedIds, x)

\* C18, amended. For an id without an item in the current source, status(id)
\* is true exactly when the Pin Set of the current render holds the id as a
\* stale pin, although pinnedItems shows no item for it.
StatusOfStalePin ==
  LET pinned == pinnedItems
  IN \A x \in ArgChoices :
       UnresolvableId(items, x) =>
         /\ isPinned(items, pinnedIds, x) <=> Has(pinnedIds, x.id)
         /\ \A i \in 1..Len(pinned) : getItemId(pinned[i]) # x.id

\* A new items array has just removed the item of a pinned id: the id is a
\* stale pin and status of it is true.
StatusOfStalePinWitness ==
  /\ last.op = "setItems"
  /\ \E x \in ArgChoices :
       /\ UnresolvableId(items, x)
       /\ HasItem(last.prev, x.id)
       /\ Has(pinnedIds, x.id)
       /\ isPinned(items, pinnedIds, x)

\* C19 as stated. unpin and toggle with an unresolvable reference are
\* skipped: for an id without an item in the current source, unpin(id) and
\* toggle(id) leave the Pin Set unchanged, stale pin or not.
UnresolvableUnpinToggleSkipped ==
  ( /\ last.op \in {"unpin", "toggle"}
    /\ UnresolvableId(items, last.arg) )
  => PinSet = Before

\* C19, amended. For an id without an item in the current source, unpin(id)
\* and toggle(id) remove the id when the Pin Set of the current render holds
\* it as a stale pin, the other ids keeping their order, and leave the Pin
\* Set unchanged when it does not; neither ever adds the id.
UnresolvableUnpinToggleRemoves ==
  ( /\ last.op \in {"unpin", "toggle"}
    /\ UnresolvableId(items, last.arg) )
  => PinSet = IF Has(pinnedIds, last.arg.id)
              THEN SelectSeq(Before, LAMBDA id : id # last.arg.id)
              ELSE Before

\* toggle of a stale pin has removed it from the Pin Set.
UnresolvableToggleWitness ==
  /\ last.op = "toggle"
  /\ UnresolvableId(items, last.arg)
  /\ Has(Before, last.arg.id)
  /\ ~Has(PinSet, last.arg.id)
  /\ PinSet # <<>>

\* C20. Stale pins are retained and reappear: a new items array leaves the
\* Pin Set as it is, ids without an item included; no view holds an item for
\* an id without one; and pinnedItems of the new array is the walk of the
\* retained Pin Set over the new items, so that an item that is back shows
\* at the place of its id among the visible pins, without a pin call.
StalePinsRetained ==
  last.op = "setItems" =>
    /\ PinSet = last.pins
    /\ LET sorted == sortedItems
       IN \A i \in 1..Len(last.pins) :
            ~HasItem(items, last.pins[i]) =>
              \A k \in 1..Len(sorted) : getItemId(sorted[k]) # last.pins[i]
    /\ pinnedItems = VisiblePins(items, last.pins)

\* A new items array has brought back the item of a stale pin while the item
\* of another pinned id went away: the item that is back is shown first,
\* before a pin that was visible all along.
StalePinReappearsWitness ==
  /\ last.op = "setItems"
  /\ Len(pinnedIds) = 3
  /\ ~HasItem(last.prev, pinnedIds[2]) /\ HasItem(items, pinnedIds[2])
  /\ HasItem(last.prev, pinnedIds[1]) /\ ~HasItem(items, pinnedIds[1])
  /\ HasItem(last.prev, pinnedIds[3]) /\ HasItem(items, pinnedIds[3])
  /\ Len(pinnedItems) = 2
  /\ getItemId(pinnedItems[1]) = pinnedIds[2]

\* The 1-based position of the first occurrence of a value in a sequence.
FirstIndex(s, e) == CHOOSE i \in 1..Len(s) : s[i] = e /\ \A j \in 1..(i - 1) : s[j] # e

\* C21. Initial Pin Set: at the first render the Pin Set holds exactly the
\* ids among the first maxPinnedItems entries of the initial list (all of
\* its entries without a bound), each once, ordered by first occurrence;
\* ids without an item are kept, and an empty list gives an empty Pin Set.
InitialPinSet ==
  last.op = "init" =>
    LET list == last.pins
        n    == IF maxPinnedItems # 0 /\ maxPinnedItems < Len(list)
                THEN maxPinnedItems ELSE Len(list)
        cut  == [i \in 1..n |-> list[i]]
    IN /\ \A i \in 1..n : Has(pinnedIds, cut[i])
       /\ \A i \in 1..Len(pinnedIds) : Has(cut, pinnedIds[i])
       /\ \A i, j \in 1..Len(pinnedIds) :
            i < j => FirstIndex(cut, pinnedIds[i]) < FirstIndex(cut, pinnedIds[j])
       /\ list = <<>> => PinSet = <<>>

\* The first render with a bound of 2 and a list of four ids that begins
\* with a repeated id: the cut keeps the two copies and the Set one id.
InitialPinSetWitness ==
  /\ last.op = "init"
  /\ maxPinnedItems # 0
  /\ Len(last.pins) > maxPinnedItems
  /\ last.pins[1] = last.pins[2]
  /\ Len(pinnedIds) = 1

\* C22. The notification payload is the current pinned view: an invocation
\* of the change callback comes with the commit that applied the mutations
\* and receives the pinnedItems view of the Pin Set and source of that
\* render, never the view of an earlier or an intermediate Pin Set.
NotificationPayloadIsView ==
  notified.fired => notified.payload = pinnedItems

\* A render after a batch has invoked the callback with two pinned items
\* while the Pin Set also holds a stale id.
NotificationPayloadWitness ==
  /\ last.op = "render"
  /\ notified.fired
  /\ Len(notified.payload) = 2
  /\ HasStalePin(items, pinnedIds)

\* The pinned views after each call of a batch that changed the Pin Set, in
\* call order.
AppliedViews(q, base, src) ==
  LET F[i \in 0..Len(q)] ==
        IF i = 0 THEN <<>>
        ELSE IF ApplyQueue(SubSeq(q, 1, i), base) # ApplyQueue(SubSeq(q, 1, i - 1), base)
             THEN Append(F[i - 1], ViewPinnedItems(src, ApplyQueue(SubSeq(q, 1, i), base)))
             ELSE F[i - 1]
  IN F[Len(q)]

\* The arguments of the invocations of the change callback a commit made.
Invocations(n) == IF n.fired THEN <<n.payload>> ELSE <<>>

\* C23 as stated. One notification per mutation, in call order: each call
\* of a run of consecutive calls that changes the Pin Set has its own
\* invocation of the change callback, in call order, carrying the pinned view
\* that results from that call.
OneNotificationPerMutation ==
  [][ ( /\ last'.op = "render"
        /\ options.onPinnedItemsChange )
      => LET expected == AppliedViews(queue, pinnedIds, items)
         IN /\ Len(expected) <= Len(Invocations(notified'))
            /\ \A i \in 1..Len(expected) :
                 Invocations(notified')[i] = expected[i] ]_vars

\* C23, amended. One notification per render cycle: with a callback
\* configured, the render that follows a batch whose calls changed the Pin
\* Set invokes the callback (once: the effect runs once per commit), with
\* the pinned view of the Pin Set after all calls of the batch.
OneNotificationPerCycle ==
  ( /\ last.op = "render"
    /\ options.onPinnedItemsChange
    /\ pinnedIds # last.rendered )
  => /\ notified.fired
     /\ notified.payload = ViewPinnedItems(items, pinnedIds)

\* A render has applied two pin calls of one batch to an empty Pin Set and
\* invoked the callback once, with both items.
OneNotificationPerCycleWitness ==
  /\ last.op = "render"
  /\ last.rendered = <<>>
  /\ Len(pinnedIds) = 2
  /\ notified.fired
  /\ Len(notified.payload) = 2

\* The pinned view of the render that the most recent commit replaced.
PreviousPinnedItems ==
  ViewPinnedItems(IF last.op = "setItems" THEN last.prev ELSE items, last.rendered)

\* C24. A notification follows every change of the pinned view: when a
\* commit, of a batch of calls or of a new items array, leaves pinnedItems
\* different from the pinnedItems of the render before it, a configured
\* change callback has been invoked with the new pinned view.
NotificationFollowsViewChange ==
  ( /\ last.op \in {"render", "setItems"}
    /\ options.onPinnedItemsChange
    /\ PreviousPinnedItems # pinnedItems )
  => /\ notified.fired
     /\ notified.payload = pinnedItems

\* A new items array, with no call pending, has brought back the item of a
\* stale pin: the pinned view grew and the callback was invoked.
NotificationFollowsSourceWitness ==
  /\ last.op = "setItems"
  /\ options.onPinnedItemsChange
  /\ pinnedIds = last.rendered
  /\ Len(PreviousPinnedItems) < Len(pinnedItems)
  /\ notified.fired

\* The queue the most recent call hands to React when it is issued in a
\* render cycle of its own, on a render whose pinnedIds is the Pin Set that
\* the earlier calls of the batch produced.
SequentialCall ==
  CASE last.op = "pin"     -> pinItemCall(items, Before, <<>>, last.arg)
    [] last.op = "unpin"   -> unpinItemCall(items, Before, <<>>, last.arg)
    [] last.op = "toggle"  -> togglePinCall(items, Before, <<>>, last.arg)
    [] last.op = "clear"   -> clearPinnedItemsCall(<<>>)
    [] last.op = "reorder" -> updatePinOrderCall(Before, <<>>, last.from, last.to)

\* C25. No interleaving: the Pin Set after a call issued in a batch is the
\* Pin Set the same call produces when it is issued one render cycle after
\* the earlier calls, every guard being evaluated against the Pin Set that
\* the earlier calls produced.
BatchEqualsSequential ==
  last.op \in {"pin", "unpin", "toggle", "clear", "reorder"}
  => PinSet = ApplyQueue(SequentialCall, Before)

\* C26. Views are consistent and come from the final state: the views the
\* consumer holds equal a recomputation from the source and the pinnedIds of
\* the same render (the memo never serves the views of an older source or
\* Pin Set), and the views of the render that follows a batch are those of
\* the Pin Set after all calls of the batch.
ViewsAreFresh ==
  /\ views = ComputeViews(items, pinnedIds)
  /\ last.op \in {"render", "setItems"} =>
       /\ pinnedItems = ViewPinnedItems(items, last.pins)
       /\ unpinnedItems = ViewUnpinnedItems(items, last.pins)

\* A commit has applied pending calls together with a new items array: both
\* the Pin Set and the source differ from those of the render before.
ViewsAreFreshWitness ==
  /\ last.op = "setItems"
  /\ last.prev # items
  /\ last.rendered # pinnedIds
  /\ pinnedItems # <<>>
  /\ unpinnedItems # <<>>

\* Does no value occur at two positions of the sequence?
NoRepeat(s) == \A i, j \in 1..Len(s) : s[i] = s[j] => i = j

\* C27. Uniqueness: in every reachable state the Pin Set, read as an ordered
\* sequence, holds no id twice (the rendered one and the one the pending
\* calls produce), and pinnedItems holds no item twice.
UniquePins ==
  /\ NoRepeat(pinnedIds)
  /\ NoRepeat(PinSet)
  /\ NoRepeat(pinnedItems)

\* A reorder has been issued on a Pin Set of at least two ids that was built
\* from an initial list with a repeated id.
UniquePinsWitness ==
  /\ last.op = "reorder"
  /\ queue # last.queue
  /\ Len(PinSet) >= 2
  /\ Len(pinnedItems) >= 2

\* Do the two arrays hold the same items, each as often, in another order?
Permuted(a, b) ==
  /\ a # b
  /\ Len(a) = Len(b)
  /\ \A i \in 1..Len(a) : Count(a, a[i]) = Count(b, a[i])

\* C28. Pin order is independent of source order: a new items array leaves
\* the Pin Set as it was (the ids and their order); if the new array is a
\* permutation of the old one, pinnedItems is what the old array gave for the
\* same Pin Set, and unpinnedItems holds the items that were unpinned in the
\* old array, in the order of the new array.
PinOrderIndependentOfSource ==
  last.op = "setItems" =>
    /\ pinnedIds = last.pins
    /\ Permuted(last.prev, items) =>
         LET before == ViewUnpinnedItems(last.prev, last.pins)
         IN /\ pinnedItems = ViewPinnedItems(last.prev, last.pins)
            /\ unpinnedItems =
                 SelectSeq(items, LAMBDA item :
                   \E k \in 1..Len(before) : before[k] = item)

\* The items array has been replaced by a permutation of itself while two
\* items were pinned in the order of the old array: pinnedItems still shows
\* them in that order, against the order of the new array.
PinOrderIndependentWitness ==
  /\ last.op = "setItems"
  /\ Permuted(last.prev, items)
  /\ Len(pinnedItems) = 2
  /\ pinnedItems = last.prev

\* C29. reorder preserves membership under any interleaving: after an
\* updatePinOrder call, whether issued on a freshly rendered Pin Set or after
\* other calls of the same batch, the Pin Set holds exactly the ids it held
\* before the call, as many of them, and no undefined value that was not
\* there before.
ReorderPreservesMembership ==
  last.op = "reorder" =>
    LET after == PinSet
        start == Before
    IN /\ Len(after) = Len(start)
       /\ \A i \in 1..Len(after) : Has(start, after[i])
       /\ \A i \in 1..Len(start) : Has(after, start[i])

\* Is the call just issued a pinItem call of a batch whose pending calls are
\* all pinItem calls?
PinsOnlyBatch ==
  /\ last.op = "pin"
  /\ \A i \in 1..Len(last.queue) : last.queue[i].op = "pin"

\* C30. Batched pins behave like sequential pins: after a pinItem call of a
\* batch of pinItem calls the Pin Set is the one the same call gives when it
\* is issued on the rendered Pin Set that the earlier calls of the batch
\* produce; it extends that Pin Set by at most the one id, holds no id twice
\* and, with a bound configured, is left alone when the bound is reached.
BatchedPinsSequential ==
  PinsOnlyBatch =>
    LET start == Before
        after == PinSet
    IN /\ after = ApplyQueue(pinItemCall(items, start, <<>>, last.arg), start)
       /\ after = start \/ after = Append(start, getId(items, last.arg))
       /\ Has(start, getId(items, last.arg)) => after = start
       /\ maxPinnedItems # 0 /\ Len(start) >= maxPinnedItems => after = start

\* The second pinItem call of a batch names an item that is not pinned, and
\* the first call of the batch has filled the Pin Set to the bound: the
\* second update is queued and leaves the Pin Set alone.
BatchedPinsWitness ==
  /\ PinsOnlyBatch
  /\ Len(last.queue) = 1
  /\ Len(queue) = 2
  /\ maxPinnedItems # 0
  /\ Len(pinnedIds) < maxPinnedItems
  /\ Len(Before) = maxPinnedItems
  /\ ~Has(Before, queue[2].id)
  /\ PinSet = Before

\* C31. Capacity counts stale pins: with a bound configured, pinItem of an
\* argument that resolves to an item of the source and is not pinned appends
\* its id if and only if the whole Pin Set, ids without an item included,
\* holds fewer than maxPinnedItems ids, however few items pinnedItems shows;
\* and in every state pinnedItems is no longer than the Pin Set, which is no
\* longer than the bound.
CapacityCountsStalePins ==
  /\ Len(pinnedItems) <= Len(pinnedIds)
  /\ maxPinnedItems # 0 =>
       /\ Len(pinnedIds) <= maxPinnedItems
       /\ Len(PinSet) <= maxPinnedItems
       /\ ( /\ last.op = "pin"
            /\ InSource(items, getItem(items, last.arg))
            /\ ~Has(Before, LastId) )
          => LET applied == PinSet = Append(Before, LastId)
             IN /\ applied <=> Len(Before) < maxPinnedItems
                /\ ~applied => PinSet = Before

\* Is the call just issued one of the rejected operations: a pin of a pinned
\* id, a pin on a full Pin Set, a pin of an id without an item, an unpin of
\* an id that is not pinned, a reorder with an index out of range?
RejectedPin ==
  /\ last.op = "pin"
  /\ \/ Has(Before, LastId)
     \/ ~BelowCapacity(Before)
     \/ IsIdShaped(last.arg) /\ ~HasItem(items, LastId)

RejectedUnpin == last.op = "unpin" /\ ~Has(Before, LastId)

RejectedReorder ==
  /\ last.op = "reorder"
  /\ OutOfRange(last.from, Len(Before)) \/ OutOfRange(last.to, Len(Before))

\* Has the call just issued left the Pin Set alone, and with it the three
\* views of the next render, and has it not turned a render cycle without a
\* notification into one with a notification?
Silent ==
  /\ PinSet = Before
  /\ ComputeViews(items, PinSet) = ComputeViews(items, Before)
  /\ QueueChangesState(queue, pinnedIds) <=> QueueChangesState(last.queue, pinnedIds)

\* C32. Rejected operations are silent: a pin of an already pinned id, a pin
\* rejected for capacity, a pin of an unresolvable id, an unpin of an id that
\* is not pinned and a reorder with an out-of-range index each leave the Pin
\* Set and the three views unchanged and cause no invocation of the change
\* callback.
RejectedOperationsSilent ==
  (RejectedPin \/ RejectedUnpin \/ RejectedReorder) => Silent

\* C33. Initial notification: with a change callback configured, the
\* callback has been invoked at initialization, before any action is called
\* (once: the effect runs once after the first render), with the pinned view
\* of the initial Pin Set over the initial source; with no callback
\* configured nothing is invoked.
InitialNotification ==
  last.op = "init" =>
    /\ queue = <<>>
    /\ Len(Invocations(notified)) = IF options.onPinnedItemsChange THEN 1 ELSE 0
    /\ options.onPinnedItemsChange =>
         /\ notified.payload = VisiblePins(items, pinnedIds)
         /\ notified.payload = pinnedItems

\* The first render of a hook with a callback and an initial list that
\* names two items of the source and an id without an item.
InitialNotificationWitness ==
  /\ last.op = "init"
  /\ options.onPinnedItemsChange
  /\ notified.fired
  /\ Len(notified.payload) = 2
  /\ Len(pinnedIds) = 3

\* C34. Double toggle restores pinned status: for an argument that resolves
\* to an item of the current source, a second togglePin of the same argument
\* leaves its id in the Pin Set exactly if it was there before the first,
\* whether the second call is issued in the same batch or after the render
\* that follows.
DoubleToggleRestores ==
  (last.op = "toggle" /\ InSource(items, getItem(items, last.arg))) =>
    LET was    == Has(Before, LastId)
        latest == PinSet
    IN /\ Has(ApplyQueue(togglePinCall(items, pinnedIds, queue, last.arg),
                         pinnedIds), LastId) <=> was
       /\ Has(ApplyQueue(togglePinCall(items, latest, <<>>, last.arg),
                         latest), LastId) <=> was

\* C35. status agrees with the views: in every rendered state and for every
\* item of the current source (ids pairwise distinct), isPinned(item) is true
\* exactly when the item is in pinnedItems and false exactly when it is in
\* unpinnedItems, and the exposed pinnedIds is the Set the views were
\* computed from: the ids of pinnedItems are its ids that have an item, in
\* its order.
StatusAgreesWithViews ==
  LET pinned   == pinnedItems
      unpinned == unpinnedItems
  IN DistinctIds(items) =>
       /\ \A i \in 1..Len(items) :
            LET status == isPinned(items, pinnedIds, items[i])
            IN /\ status <=> InSource(pinned, items[i])
               /\ ~status <=> InSource(unpinned, items[i])
       /\ [i \in 1..Len(pinned) |-> getItemId(pinned[i])]
            = SelectSeq(pinnedIds, LAMBDA id : HasItem(items, id))

\* Calls are pending on a render that shows the item 0 pinned and another
\* item unpinned: status is read from the rendered Set, as the views are.
StatusAgreesWitness ==
  /\ queue # <<>>
  /\ PinSet # pinnedIds
  /\ InSource(items, Num(0))
  /\ isPinned(items, pinnedIds, Num(0))
  /\ InSource(pinnedItems, Num(0))
  /\ unpinnedItems # <<>>

\* Is the value an item value that is not an element of the source array?
OutOfSource(src, x) == ~IsIdShaped(x) /\ ~InSource(src, x)

\* Is the status of an item value from outside the source the status of the
\* id the identity function gives it, and has an unpinItem call with such a
\* value queued what the call with that id queues?
FallbackStatusAndUnpin ==
  /\ \A x \in ArgChoices :
       OutOfSource(items, x) =>
         /\ getId(items, x) = getItemId(x)
         /\ isPinned(items, pinnedIds, x)
              <=> isPinned(items, pinnedIds, Num(getItemId(x)))
  /\ (last.op = "unpin" /\ OutOfSource(items, last.arg)) =>
       queue = unpinItemCall(items, pinnedIds, last.queue, Num(getItemId(last.arg)))

====
